---- MODULE Spec2Model ----
(***************************************************************************)
(* State-machine model of mnist.py: a classifier made of layers of          *)
(* learnable two-input logic gates (LearnableGate16Array), its Model,       *)
(* validate(), binarize_model(), the regularisers and the training loop.    *)
(*                                                                          *)
(* Tensor entries are exact rationals <<n, d>> (d > 0, lowest terms).       *)
(* Tensors are functions/sequences indexed from 1; the code's index k is    *)
(* k+1 here except where a definition takes the code's 0-based index.       *)
(* A layer's cached tensors of zeros and ones (lines 139-140, 161-164) hold *)
(* constants and are no parameters: they are the constants Zero and One.    *)
(***************************************************************************)
EXTENDS Integers, Sequences, FiniteSets, TLC

VARIABLES
    pc,               \* position of the running script / of the call under way
    cfg,              \* the configuration read at start-up (lines 44-70)
    heap,             \* the Model objects that exist, by object id (1..Len)
    model,            \* id of the live network `model` (0: not constructed)
    model_binarized,  \* id of the last network binarize_model returned (0: none)
    origin,           \* history: for each object made by binarize_model, its source id and the source's layers
    optimizer,        \* the AdamW optimizer's hyper-parameters (line 432), or "none"
    rng,              \* state of torch's random generator
    i,                \* the training loop's counter
    train,            \* the training iteration under way (lines 437-466)
    val,              \* the validate() call under way or last finished (lines 355-385)
    fwd,              \* what the last layer-by-layer forward pass computed
    call,             \* inputs of a call of the regularisers and the loss assembly
    ret               \* its result

vars == <<pc, cfg, heap, model, model_binarized, origin, optimizer, rng, i,
          train, val, fwd, call, ret>>

----------------------------------------------------------------------------
(* Exact rational arithmetic *)

Abs(n) == IF n < 0 THEN -n ELSE n

RECURSIVE GCD(_, _)
GCD(a, b) == IF b = 0 THEN a ELSE GCD(b, a % b)

\* the rational n/d in lowest terms with a positive denominator
Rat(n, d) ==
    LET s == IF d < 0 THEN -1 ELSE 1
        g == GCD(Abs(n), Abs(d))
    IN  <<(s * n) \div g, (s * d) \div g>>

Zero == Rat(0, 1)
One == Rat(1, 1)
RAdd(a, b) == Rat(a[1] * b[2] + b[1] * a[2], a[2] * b[2])
RSub(a, b) == Rat(a[1] * b[2] - b[1] * a[2], a[2] * b[2])
RMul(a, b) == Rat(a[1] * b[1], a[2] * b[2])
RDiv(a, b) == Rat(a[1] * b[2], a[2] * b[1])
RLess(a, b) == a[1] * b[2] < b[1] * a[2]
RLeq(a, b) == a[1] * b[2] <= b[1] * a[2]

RECURSIVE RSum(_)
RSum(s) == IF s = <<>> THEN Zero ELSE RAdd(s[1], RSum(Tail(s)))

----------------------------------------------------------------------------
(* LearnableGate16Array.forward: the 16 gate relaxations (lines 166-190) *)

NumGates == 16

\* the stack with g6 computed as g7
GateStackNoXor(A, B) ==
    LET AB == RMul(A, B)
        g2 == RSub(A, AB)
        g4 == RSub(B, AB)
        g7 == RSub(RAdd(A, B), AB)
        g6 == g7
    IN  << Zero, AB, g2, A, g4, B, g6, g7,
           RSub(One, g7), RSub(One, g6), RSub(One, B), RSub(One, g4),
           RSub(One, A), RSub(One, g2), RSub(One, AB), One >>

\* the stack [g0, ..., g15] for one gate unit with slot values A and B
GateStack(A, B) ==
    LET AB == RMul(A, B)
        g0 == Zero
        g1 == AB
        g2 == RSub(A, AB)
        g3 == A
        g4 == RSub(B, AB)
        g5 == B
        g7 == RSub(RAdd(A, B), AB)
        g6 == RSub(g7, AB)
        g8 == RSub(One, g7)
        g9 == RSub(One, g6)
        g10 == RSub(One, B)
        g11 == RSub(One, g4)
        g12 == RSub(One, A)
        g13 == RSub(One, g2)
        g14 == RSub(One, AB)
        g15 == One
    IN  << g0, g1, g2, g3, g4, g5, g6, g7,
           g8, g9, g10, g11, g12, g13, g14, g15 >>

----------------------------------------------------------------------------
(* Small tensor helpers *)

Range(s) == {s[n] : n \in 1..Len(s)}

\* torch.argmax along one axis: the (1-based) position of the first maximum
ArgMax(col) ==
    CHOOSE p \in 1..Len(col) :
        /\ \A q \in 1..Len(col) : RLeq(col[q], col[p])
        /\ \A q \in 1..(p - 1) : RLess(col[q], col[p])

\* column j of a [rows, gates] tensor / of slot s of a [rows, gates, 2] tensor
ColumnW(w, j) == [k \in 1..Len(w) |-> w[k][j]]
ColumnC(c, j, s) == [n \in 1..Len(c) |-> c[n][j][s]]

----------------------------------------------------------------------------
(* LearnableGate16Array (lines 132-195) *)

\* nn.init.normal_: the n-th value torch's generator yields in state r.  The
\* values are a bounded sample of what a Gaussian draw can give (ties included).
normal_(r, n) ==
    Rat((((r * r * 3 + 7 * r + n * (n + r + 1) * 3 + (n \div 3) + 2 * r * n) % 7) % 5) - 2, 1)

\* LearnableGate16Array.__init__ (lines 133-146), drawing from generator state r
LearnableGate16Array(number_of_gates, number_of_inputs, name, r) ==
    [ number_of_gates |-> number_of_gates,
      number_of_inputs |-> number_of_inputs,
      name |-> name,
      w |-> [k \in 1..NumGates |-> [j \in 1..number_of_gates |->
                normal_(r, 1000 * name + 16 * (j - 1) + (k - 1))]],
      binarized |-> FALSE,
      c |-> [n \in 1..number_of_inputs |-> [j \in 1..number_of_gates |-> [s \in 1..2 |->
                normal_(r, 1000 * name + 500 + ((n - 1) * number_of_gates + (j - 1)) * 2 + (s - 1))]]] ]

\* a forward pass that reads slot 1 into A and slot 0 into B
ForwardSlotsSwapped(layer, x) ==
    LET batch == 1..Len(x)
        G == 1..layer.number_of_gates
        slot(b, j, s) == RSum([n \in 1..layer.number_of_inputs |->
                                    RMul(x[b][n], layer.c[n][j][s])])
        A == [j \in G |-> [b \in batch |-> slot(b, j, 2)]]
        B == [j \in G |-> [b \in batch |-> slot(b, j, 1)]]
        gates == [j \in G |-> [b \in batch |-> GateStack(A[j][b], B[j][b])]]
        out == [b \in batch |-> [j \in G |->
                    RSum([k \in 1..NumGates |-> RMul(gates[j][b][k], layer.w[k][j])])]]
    IN  [A |-> A, B |-> B, gates |-> gates, out |-> out]

\* forward (lines 149-195) of a layer in Binarized state on the batch x
\* (x[b][n]: sample b, input n): the stored c and w are used as they are.
\* Returns the slot values, the stacked gates and the output [batch, gates].
ForwardBinarized(layer, x) ==
    LET batch == 1..Len(x)
        G == 1..layer.number_of_gates
        connections == layer.c
        slot(b, j, s) == RSum([n \in 1..layer.number_of_inputs |->
                                    RMul(x[b][n], connections[n][j][s])])
        A == [j \in G |-> [b \in batch |-> slot(b, j, 1)]]
        B == [j \in G |-> [b \in batch |-> slot(b, j, 2)]]
        weights == layer.w
        gates == [j \in G |-> [b \in batch |-> GateStack(A[j][b], B[j][b])]]
        out == [b \in batch |-> [j \in G |->
                    RSum([k \in 1..NumGates |-> RMul(gates[j][b][k], weights[k][j])])]]
    IN  [A |-> A, B |-> B, gates |-> gates, out |-> out]


----------------------------------------------------------------------------
(* Model (lines 198-261) *)

\* a construction without the assert of line 209
ModelInitNoAssert(seed, net_architecture, number_of_categories, input_size, r) ==
    LET last_layer_gates == net_architecture[Len(net_architecture)]
        outputs_per_category == last_layer_gates \div number_of_categories
    IN  [ error |-> "none",
          net_architecture |-> net_architecture,
          first_layer_gates |-> net_architecture[1],
          last_layer_gates |-> last_layer_gates,
          number_of_categories |-> number_of_categories,
          input_size |-> input_size,
          seed |-> seed,
          outputs_per_category |-> outputs_per_category,
          attrs |-> {},
          layers |-> [l \in 1..Len(net_architecture) |->
                LearnableGate16Array(net_architecture[l],
                    IF l = 1 THEN input_size ELSE net_architecture[l - 1], l - 1, r)] ]

\* Model.__init__ (lines 199-218) drawing the initial parameters from generator
\* state r.  The assert of line 209 precedes the creation of the layers: a
\* failed construction yields no object, only the error.
ModelInit(seed, net_architecture, number_of_categories, input_size, r) ==
    LET last_layer_gates == net_architecture[Len(net_architecture)]
        outputs_per_category == last_layer_gates \div number_of_categories
    IN  IF last_layer_gates # number_of_categories * outputs_per_category
        THEN [error |-> "AssertionError"]
        ELSE [ error |-> "none",
               net_architecture |-> net_architecture,
               first_layer_gates |-> net_architecture[1],
               last_layer_gates |-> last_layer_gates,
               number_of_categories |-> number_of_categories,
               input_size |-> input_size,
               seed |-> seed,
               outputs_per_category |-> outputs_per_category,
               attrs |-> {},
               layers |-> [l \in 1..Len(net_architecture) |->
                     LearnableGate16Array(net_architecture[l],
                         IF l = 1 THEN input_size ELSE net_architecture[l - 1], l - 1, r)] ]

\* Model.state_dict (lines 238-252): the parameter tensors of every layer and
\* the extra entries, by key
state_dict(m) ==
    [ tensors |-> [l \in 1..Len(m.layers) |-> [w |-> m.layers[l].w, c |-> m.layers[l].c]],
      extra |-> {"net_architecture", "seed", "connections"}
                    \cup (m.attrs \cap {"dataset_input", "dataset_output"}),
      net_architecture |-> m.net_architecture,
      seed |-> m.seed,
      connections |-> [s \in 1..2 |-> [l \in 1..Len(m.layers) |->
            [j \in 1..m.layers[l].number_of_gates |-> ArgMax(ColumnC(m.layers[l].c, j, s))]]] ]

\* the shape of a layer's two parameter tensors
Shape(t) == <<Len(t.w), Len(t.w[1]), Len(t.c), Len(t.c[1])>>

\* Model.load_state_dict (lines 254-261) with strict=True into m: the three known
\* extra entries are popped; nn.Module.load_state_dict then raises on any key
\* left that is no parameter, on a missing parameter and on a shape mismatch,
\* and otherwise copies every tensor into m's own parameters.
load_state_dict(m, sd) ==
    LET left == sd.extra \ {"net_architecture", "seed", "connections"}
        m1 == [m EXCEPT !.net_architecture = sd.net_architecture, !.seed = sd.seed]
    IN  IF \/ left # {}
           \/ Len(sd.tensors) # Len(m.layers)
           \/ \E l \in 1..Len(m.layers) : Len(sd.tensors) >= l /\ Shape(sd.tensors[l]) # Shape(m.layers[l])
        THEN [error |-> "RuntimeError"]
        ELSE [m1 EXCEPT !.layers = [l \in 1..Len(m.layers) |->
                    [m.layers[l] EXCEPT !.w = sd.tensors[l].w, !.c = sd.tensors[l].c]]]

----------------------------------------------------------------------------
(* binarize_model (lines 387-402) *)

\* a scatter_ without the preceding zero_()
BinarizeWNoZero(w, bin_value) ==
    [k \in 1..Len(w) |-> [j \in 1..Len(w[1]) |->
        IF k = ArgMax(ColumnW(w, j)) THEN bin_value ELSE w[k][j]]]

\* lines 391-393: zero_() then scatter_ of bin_value at the arg-max of each column
BinarizeW(w, bin_value) ==
    [k \in 1..Len(w) |-> [j \in 1..Len(w[1]) |->
        IF k = ArgMax(ColumnW(w, j)) THEN bin_value ELSE Zero]]

\* lines 395-397: the same for each (gate, slot) column of c
BinarizeC(c, bin_value) ==
    [n \in 1..Len(c) |-> [j \in 1..Len(c[1]) |-> [s \in 1..2 |->
        IF n = ArgMax(ColumnC(c, j, s)) THEN bin_value ELSE Zero]]]

\* a loop body that hardens w and leaves c
BinarizeLayerKeepC(layer, bin_value) ==
    [layer EXCEPT !.w = BinarizeW(layer.w, bin_value), !.binarized = TRUE]

\* the body of the loop, lines 391-399, for one layer
BinarizeLayer(layer, bin_value) ==
    [layer EXCEPT !.w = BinarizeW(layer.w, bin_value),
                  !.c = BinarizeC(layer.c, bin_value),
                  !.binarized = TRUE]

\* binarize_model(model=m, bin_value) with the configuration g, drawing the fresh
\* Model's initial parameters from generator state r: the new object, or the error
binarize_model(m, bin_value, g, r) ==
    LET fresh == ModelInit(g.SEED, g.NET_ARCHITECTURE, g.NUMBER_OF_CATEGORIES, g.INPUT_SIZE, r)
        loaded == IF fresh.error = "none" THEN load_state_dict(fresh, state_dict(m)) ELSE fresh
    IN  IF loaded.error # "none" THEN loaded
        ELSE [loaded EXCEPT !.layers = [l \in 1..Len(loaded.layers) |->
                    BinarizeLayer(loaded.layers[l], bin_value)]]


\* lines 221-222: the layers from l on applied in sequence to X; what each computed
RECURSIVE RunLayers(_, _, _)
RunLayers(layers, l, X) ==
    IF l > Len(layers) THEN <<>>
    ELSE LET f == ForwardBinarized(layers[l], X)
         IN  <<f>> \o RunLayers(layers, l + 1, f.out)

\* Model.forward (lines 224-226) on the last layer's output X of a network whose
\* layers are all in Binarized state: the sum of each category's group of
\* outputs, then the class predicted (0-based).  The final softmax is strictly
\* increasing, so the arg-max of its result is the arg-max of the sums.
CategorySums(m, X) ==
    [b \in 1..Len(X) |-> [cat \in 1..m.number_of_categories |->
        RSum([t \in 1..m.outputs_per_category |->
                X[b][(cat - 1) * m.outputs_per_category + t]])]]

Predicted(sums) == [b \in 1..Len(sums) |-> ArgMax(sums[b]) - 1]

AllBinarized(m) == \A l \in 1..Len(m.layers) : m.layers[l].binarized

----------------------------------------------------------------------------
(* Configuration (lines 44-70) and the device-resident data (lines 307-345) *)

\* values of the configuration keys; the model takes small ones
NUMBER_OF_CATEGORIES == 2
INPUT_SIZE == 2
BATCH_SIZE == 2
TRAINING_STEPS == 4
VALIDATE_EVERY == 2
MaxSeed == 1
\* NET_ARCHITECTURE values tried
Architectures == {<<1>>, <<2>>, <<3>>, <<4>>, <<1, 2>>, <<2, 2>>, <<2, 3>>}

\* LEARNING_RATE and DECAY_CONST_GATES (lines 64-65), as exact rationals
LEARNING_RATE == Rat(1, 2)
DECAY_CONST_GATES == Rat(1, 2)

\* the numbers of samples of the three splits (lines 307, 320, 335)
train_dataset_samples == 3
val_dataset_samples == 2
test_dataset_samples == 1

Splits == {"val", "test", "train"}

NumberOfSamples(dataset) ==
    CASE dataset = "val" -> val_dataset_samples
      [] dataset = "test" -> test_dataset_samples
      [] dataset = "train" -> train_dataset_samples

SplitOffset(dataset) ==
    CASE dataset = "val" -> 3
      [] dataset = "test" -> 1
      [] dataset = "train" -> 0

\* bit n (from 1) of the natural v
Bit(v, n) == (v \div (2 ^ (n - 1))) % 2

\* sample_images[idx] (idx from 0): a vector of INPUT_SIZE entries 0.0 / 1.0, as
\* binarize_image_with_histogram (lines 271-273) leaves them
SampleImage(dataset, idx, input_size) ==
    [n \in 1..input_size |-> Rat(Bit(idx + SplitOffset(dataset), n), 1)]

\* the class of sample idx (the position of the 1 in its one-hot label row)
SampleLabel(dataset, idx, number_of_categories) ==
    (idx + SplitOffset(dataset)) % number_of_categories


----------------------------------------------------------------------------
(* Regularisers (lines 404-414) and the loss of one iteration (lines 443-459) *)

\* torch.max along the leading axis of column q of a [lead, cols] tensor
MaxOf(t, q) == LET col == [n \in 1..Len(t) |-> t[n][q]] IN col[ArgMax(col)]

\* l1_maxOnly_regularization (lines 404-408) of a [lead, cols] tensor
l1_maxOnly_regularization(weights_after_softmax) ==
    LET cols == Len(weights_after_softmax[1])
        non_max_sum == RSum([q \in 1..cols |-> RSub(One, MaxOf(weights_after_softmax, q))])
        largest_possible_sum == Rat(cols, 1)
    IN  RDiv(non_max_sum, largest_possible_sum)

\* passthrough_regularization (lines 410-414); the code's indices 3, 5, 10, 12
passthrough_regularization(weights_after_softmax) ==
    LET cols == Len(weights_after_softmax[1])
        indices == <<4, 6, 11, 13>>
        pass_weight == RSum([e \in 1..(4 * cols) |->
                            weights_after_softmax[indices[((e - 1) % 4) + 1]][((e - 1) \div 4) + 1]])
        total_weight == RSum([e \in 1..(Len(weights_after_softmax) * cols) |->
                            weights_after_softmax[((e - 1) % Len(weights_after_softmax)) + 1]
                                                 [((e - 1) \div Len(weights_after_softmax)) + 1]])
    IN  RDiv(pass_weight, total_weight)

\* a loss whose gate-weight term is not multiplied by its coefficient
TotalLossUnweighted(cross_entropy, p, c, g, h) ==
    LET loss_ce == RMul(cross_entropy, h.LOSS_CE_STRENGTH)
        n == Rat(Len(p), 1)
        passthrough_regularization_loss == RDiv(RSum(p), n)
        connection_regularization_loss == RDiv(RSum(c), n)
        gate_weight_regularization_loss == RDiv(RSum(g), n)
        regularization_loss ==
            RMul(RSub(One, h.LOSS_CE_STRENGTH),
                 RAdd(RAdd(RMul(h.PASSTHROUGH_REGULARIZATION, passthrough_regularization_loss),
                           RMul(h.CONNECTION_REGULARIZATION, connection_regularization_loss)),
                      gate_weight_regularization_loss))
    IN  [loss_ce |-> loss_ce, regularization_loss |-> regularization_loss,
         loss |-> RAdd(loss_ce, regularization_loss)]

\* lines 443-459: cross_entropy is F.cross_entropy(model_output, y); p, c, g are
\* the per-layer values of the three regularisers; h holds the four coefficients
TotalLoss(cross_entropy, p, c, g, h) ==
    LET loss_ce == RMul(cross_entropy, h.LOSS_CE_STRENGTH)
        n == Rat(Len(p), 1)
        passthrough_regularization_loss == RDiv(RSum(p), n)
        connection_regularization_loss == RDiv(RSum(c), n)
        gate_weight_regularization_loss == RDiv(RSum(g), n)
        regularization_loss ==
            RMul(RSub(One, h.LOSS_CE_STRENGTH),
                 RAdd(RAdd(RMul(h.PASSTHROUGH_REGULARIZATION, passthrough_regularization_loss),
                           RMul(h.CONNECTION_REGULARIZATION, connection_regularization_loss)),
                      RMul(h.GATE_WEIGHT_REGULARIZATION, gate_weight_regularization_loss)))
    IN  [loss_ce |-> loss_ce, regularization_loss |-> regularization_loss,
         loss |-> RAdd(loss_ce, regularization_loss)]

\* the four coefficients of lines 67-70 at their defaults
Hyper ==
    [ PASSTHROUGH_REGULARIZATION |-> Rat(1, 1),
      CONNECTION_REGULARIZATION |-> Rat(5, 1),
      GATE_WEIGHT_REGULARIZATION |-> Rat(1, 1),
      LOSS_CE_STRENGTH |-> Rat(9, 10) ]

----------------------------------------------------------------------------
(* The optimizer step and the constant-gate decay (lines 432, 460-466) *)

\* torch.optim.AdamW(model.parameters(), lr=LEARNING_RATE, weight_decay=0)
AdamW == [lr |-> LEARNING_RATE, weight_decay |-> Zero]

\* The update AdamW's moment estimates give entry n of a tensor for the batch
\* outcome o: the gradients are not computed here, so the update is one of a
\* bounded family of patterns of -1 / 0 / +1.
Update(o, n) == Rat((((o * 5 + n * 3 + (n \div 4) * o) % 7) % 3) - 1, 1)

\* optimizer.step() (line 461) on one layer: AdamW first shrinks every
\* parameter by lr * weight_decay, then applies its update
OptimizerStepLayer(layer, opt, o) ==
    LET shrink == RSub(One, RMul(opt.lr, opt.weight_decay))
        G == layer.number_of_gates
    IN  [layer EXCEPT
            !.w = [k \in 1..NumGates |-> [j \in 1..G |->
                    RAdd(RMul(layer.w[k][j], shrink),
                         Update(o, 1000 * layer.name + 16 * (j - 1) + (k - 1)))]],
            !.c = [n \in 1..layer.number_of_inputs |-> [j \in 1..G |-> [s \in 1..2 |->
                    RAdd(RMul(layer.c[n][j][s], shrink),
                         Update(o, 1000 * layer.name + 500 + ((n - 1) * G + (j - 1)) * 2 + (s - 1)))]]]]

\* a decay that scales rows 0 and 14
ConstGateDecayWrongRow(layer) ==
    LET factor == RSub(One, RMul(LEARNING_RATE, DECAY_CONST_GATES))
    IN  [layer EXCEPT !.w = [k \in 1..NumGates |-> [j \in 1..layer.number_of_gates |->
            IF k \in {1, 15} THEN RMul(layer.w[k][j], factor) ELSE layer.w[k][j]]]]

\* lines 464-466 on one layer: rows 0 and 15 of w (1 and 16 here) are scaled
ConstGateDecay(layer) ==
    LET factor == RSub(One, RMul(LEARNING_RATE, DECAY_CONST_GATES))
    IN  [layer EXCEPT !.w = [k \in 1..NumGates |-> [j \in 1..layer.number_of_gates |->
            IF k \in {1, 16} THEN RMul(layer.w[k][j], factor) ELSE layer.w[k][j]]]]


----------------------------------------------------------------------------
(* The state machine: frames *)

\* no validate() call has been made
ValNone ==
    [ status |-> "none", dataset |-> "", mdl |-> 0, number_of_samples |-> 0,
      start_idx |-> 0, val_loss |-> Zero, val_steps |-> 0, correct |-> 0,
      batches |-> <<>>, result |-> <<>>, ret |-> "" ]

TrainNone ==
    [ outcome |-> 0, loss_ce |-> Zero, loss |-> Zero, ret |-> "",
      steps |-> 0, decays |-> 0 ]

FwdNone == [mdl |-> 0, x |-> <<>>, trace |-> <<>>]

NoOrigin == [src |-> 0, layers |-> <<>>, bin_value |-> Zero]

\* the batch outcomes tried per training iteration, the objects the call
\* harness may allocate
MaxOutcome == 2
MaxObjects == 3

\* an end index that is not cut at the number of samples
NoClip(a, b) == a

\* min (line 374)
Min(a, b) == IF a < b THEN a ELSE b

\* the summed cross-entropy values tried for a batch of len samples: the
\* logarithms are not computed here
BatchLosses(len) == {Rat(len, 1), Rat(3 * len, 2)}

----------------------------------------------------------------------------
(* The script, top to bottom *)

Init ==
    /\ pc = "start"
    /\ cfg \in [ NET_ARCHITECTURE : Architectures,
                 NUMBER_OF_CATEGORIES : {NUMBER_OF_CATEGORIES},
                 INPUT_SIZE : {INPUT_SIZE},
                 SEED : 0..MaxSeed ]
    /\ heap = <<>>
    /\ model = 0
    /\ model_binarized = 0
    /\ origin = <<>>
    /\ optimizer = "none"
    /\ rng = 0
    /\ i = 0
    /\ train = TrainNone
    /\ val = ValNone
    /\ fwd = FwdNone
    /\ call = "none"
    /\ ret = "none"

\* lines 349-351: seed the generator and construct the live network
Construct(next) ==
    LET m == ModelInit(cfg.SEED, cfg.NET_ARCHITECTURE, cfg.NUMBER_OF_CATEGORIES,
                       cfg.INPUT_SIZE, cfg.SEED)
    IN  IF m.error # "none"
        THEN /\ pc' = "crashed"
             /\ ret' = m.error
             /\ rng' = cfg.SEED
             /\ UNCHANGED <<heap, model, origin>>
        ELSE /\ pc' = next
             /\ heap' = <<m>>
             /\ model' = 1
             /\ origin' = <<NoOrigin>>
             /\ rng' = cfg.SEED + Len(m.layers)
             /\ ret' = ret

Start ==
    /\ pc = "start"
    /\ Construct("init_val")
    /\ UNCHANGED <<cfg, model_binarized, optimizer, i, train, val, fwd, call>>

\* an entry that takes an unknown split for the validation split
ValidateBeginNoRaise(dataset, mdl, next, on_error) ==
    /\ val' = [ValNone EXCEPT !.status = "running", !.dataset = dataset, !.mdl = mdl,
                              !.number_of_samples =
                                    IF dataset \in Splits THEN NumberOfSamples(dataset)
                                    ELSE val_dataset_samples,
                              !.ret = next]
    /\ pc' = "validate"

\* validate(dataset, model=heap[mdl]) is entered (lines 356-372): an unknown
\* split raises IOError before anything else is done
ValidateBegin(dataset, mdl, next, on_error) ==
    IF dataset \notin Splits
    THEN /\ val' = [ValNone EXCEPT !.status = "raised", !.dataset = dataset, !.mdl = mdl]
         /\ pc' = on_error
    ELSE /\ val' = [ValNone EXCEPT !.status = "running", !.dataset = dataset, !.mdl = mdl,
                                   !.number_of_samples = NumberOfSamples(dataset),
                                   !.ret = next]
         /\ pc' = "validate"

\* lines 373-379 of one pass of the loop: the batch is read and the network run
ValidateForward ==
    /\ pc = "validate"
    /\ val.start_idx < val.number_of_samples
    /\ LET start_idx == val.start_idx
           end_idx == Min(start_idx + BATCH_SIZE, val.number_of_samples)
           x_val == [b \in 1..(end_idx - start_idx) |->
                        SampleImage(val.dataset, start_idx + b - 1, heap[val.mdl].input_size)]
       IN  fwd' = [mdl |-> val.mdl, x |-> x_val,
                   trace |-> IF AllBinarized(heap[val.mdl])
                             THEN RunLayers(heap[val.mdl].layers, 1, x_val)
                             ELSE <<>>]
    /\ pc' = "validate_sum"
    /\ UNCHANGED <<cfg, heap, model, model_binarized, origin, optimizer, rng, i,
                   train, val, call, ret>>

\* the samples of the batch classified right (line 381) by a network in
\* Binarized state, from the output of its last layer
Hits(m, X, dataset, start_idx) ==
    LET pred == Predicted(CategorySums(m, X))
    IN  Cardinality({b \in 1..Len(X) :
            pred[b] = SampleLabel(dataset, start_idx + b - 1, m.number_of_categories)})

\* lines 380-382 of the pass.  The logarithms of the cross-entropy are not
\* computed here, nor the softmax outputs of a network in Soft state: the
\* batch's summed loss is one of the values tried and, in Soft state, any
\* number of the batch's samples may be classified right.
ValidateAccumulate ==
    /\ pc = "validate_sum"
    /\ \E loss \in BatchLosses(Len(fwd.x)) :
        \E hits \in 0..Len(fwd.x) :
          /\ fwd.trace # <<>> =>
                hits = Hits(heap[val.mdl], fwd.trace[Len(fwd.trace)].out, val.dataset,
                            val.start_idx)
          /\ val' = [val EXCEPT !.val_loss = RAdd(@, loss),
                                !.correct = @ + hits,
                                !.val_steps = @ + Len(fwd.x),
                                !.batches = Append(@, <<val.start_idx,
                                                Min(val.start_idx + BATCH_SIZE,
                                                    val.number_of_samples)>>),
                                !.start_idx = @ + BATCH_SIZE]
    /\ pc' = "validate"
    /\ UNCHANGED <<cfg, heap, model, model_binarized, origin, optimizer, rng, i,
                   train, fwd, call, ret>>

\* lines 383-385: the averages are returned to the caller
ValidateEnd ==
    /\ pc = "validate"
    /\ val.start_idx >= val.number_of_samples
    /\ val' = [val EXCEPT !.status = "returned",
                          !.result = << RDiv(val.val_loss, Rat(val.val_steps, 1)),
                                        Rat(val.correct, val.val_steps) >>]
    /\ pc' = val.ret
    /\ UNCHANGED <<cfg, heap, model, model_binarized, origin, optimizer, rng, i,
                   train, fwd, call, ret>>

\* the script's calls of validate: <<at, dataset, of the binarized copy?, then>>
ValidateCalls ==
    { <<"init_val", "val", FALSE, "optimizer">>,        \* line 419
      <<"v_train", "train", FALSE, "v_binarize">>,      \* line 481
      <<"v_bin_train", "train", TRUE, "v_val">>,        \* line 484
      <<"v_val", "val", FALSE, "v_bin_val">>,           \* line 488
      <<"v_bin_val", "val", TRUE, "next">>,             \* line 489
      <<"test", "test", FALSE, "f_binarize">>,          \* line 505
      <<"f_bin_test", "test", TRUE, "snapshot">> }      \* line 512

ScriptValidate ==
    /\ \E e \in ValidateCalls :
          /\ pc = e[1]
          /\ ValidateBegin(e[2], IF e[3] THEN model_binarized ELSE model, e[4], "crashed")
    /\ UNCHANGED <<cfg, heap, model, model_binarized, origin, optimizer, rng, i,
                   train, fwd, call, ret>>

\* line 432
MakeOptimizer ==
    /\ pc = "optimizer"
    /\ optimizer' = AdamW
    /\ pc' = "loop"
    /\ UNCHANGED <<cfg, heap, model, model_binarized, origin, rng, i, train, val, fwd,
                   call, ret>>

\* line 436: the next value of range(TRAINING_STEPS), or the end of the loop
LoopHead ==
    /\ pc = "loop"
    /\ IF i < TRAINING_STEPS
       THEN /\ pc' = "train_forward"
            /\ train' = [train EXCEPT !.ret = "iter_end"]
       ELSE /\ pc' = "test"
            /\ train' = train
    /\ UNCHANGED <<cfg, heap, model, model_binarized, origin, optimizer, rng, i, val,
                   fwd, call, ret>>

\* lines 437-459: the batch is drawn, the forward pass run and the loss
\* assembled.  The Soft network's outputs are not computed here: the batch's
\* outcome o stands for them (cross-entropy, regulariser values, gradients).
TrainForward ==
    /\ pc = "train_forward"
    /\ \E o \in 1..MaxOutcome :
          LET L == Len(heap[model].layers)
              l == TotalLoss(Rat(o, 2), [n \in 1..L |-> Rat(1, o + 1)],
                             [n \in 1..L |-> Rat(o, 4)], [n \in 1..L |-> Rat(1, 2)], Hyper)
          IN  train' = [train EXCEPT !.outcome = o, !.loss_ce = l.loss_ce, !.loss = l.loss]
    /\ rng' = rng + 1
    /\ pc' = "train_step"
    /\ UNCHANGED <<cfg, heap, model, model_binarized, origin, optimizer, i, val, fwd,
                   call, ret>>

\* lines 460-461: loss.backward(); optimizer.step()
TrainStep ==
    /\ pc = "train_step"
    /\ heap' = [heap EXCEPT ![model].layers =
                    [l \in 1..Len(@) |-> OptimizerStepLayer(@[l], optimizer, train.outcome)]]
    /\ train' = [train EXCEPT !.steps = @ + 1]
    /\ pc' = "train_decay"
    /\ UNCHANGED <<cfg, model, model_binarized, origin, optimizer, rng, i, val, fwd,
                   call, ret>>

\* lines 464-466
TrainDecay ==
    /\ pc = "train_decay"
    /\ heap' = [heap EXCEPT ![model].layers = [l \in 1..Len(@) |-> ConstGateDecay(@[l])]]
    /\ train' = [train EXCEPT !.decays = @ + 1]
    /\ pc' = train.ret
    /\ UNCHANGED <<cfg, model, model_binarized, origin, optimizer, rng, i, val, fwd,
                   call, ret>>

\* a periodic validation due when i, not i + 1, is a multiple of VALIDATE_EVERY
IterEndOffByOne ==
    /\ pc = "iter_end"
    /\ pc' = IF i % VALIDATE_EVERY = 0 THEN "v_train" ELSE "next"
    /\ UNCHANGED <<cfg, heap, model, model_binarized, origin, optimizer, rng, i, train,
                   val, fwd, call, ret>>

\* lines 469-478: the printout reads only; the periodic validation is due or not
IterEnd ==
    /\ pc = "iter_end"
    /\ pc' = IF (i + 1) % VALIDATE_EVERY = 0 THEN "v_train" ELSE "next"
    /\ UNCHANGED <<cfg, heap, model, model_binarized, origin, optimizer, rng, i, train,
                   val, fwd, call, ret>>

NextIteration ==
    /\ pc = "next"
    /\ i' = i + 1
    /\ pc' = "loop"
    /\ UNCHANGED <<cfg, heap, model, model_binarized, origin, optimizer, rng, train,
                   val, fwd, call, ret>>

\* a binarize_model whose hardened tensors are also those of its source
StoreAliased(objects, src, b) ==
    Append([objects EXCEPT ![src].layers = b.layers], b)

\* lines 388-389 and 402 on the objects that exist: the network returned is a
\* new Model whose tensors load_state_dict filled by copying, so it shares
\* nothing with its source
StoreNew(objects, src, b) == Append(objects, b)

\* model_binarized = binarize_model() of the network heap[src] (lines 387-402,
\* bin_value at its default 1): a new object, bound to model_binarized
Binarize(src, next) ==
    LET b == binarize_model(heap[src], One, cfg, rng)
    IN  IF b.error # "none"
        THEN /\ pc' = "crashed"
             /\ ret' = b.error
             /\ UNCHANGED <<heap, model_binarized, origin, rng>>
        ELSE /\ heap' = StoreNew(heap, src, b)
             /\ model_binarized' = Len(heap) + 1
             /\ origin' = Append(origin, [src |-> src, layers |-> heap[src].layers,
                                          bin_value |-> One])
             /\ rng' = rng + Len(b.layers)
             /\ pc' = next
             /\ ret' = ret

\* lines 483 and 511
ScriptBinarize ==
    /\ \E e \in {<<"v_binarize", "v_bin_train">>, <<"f_binarize", "f_bin_test">>} :
          /\ pc = e[1]
          /\ Binarize(model, e[2])
    /\ UNCHANGED <<cfg, model, optimizer, i, train, val, fwd, call>>

\* lines 515-520: the binarized copy's layers are run on val_images and both
\* tensors are attached to the live network
Snapshot ==
    /\ pc = "snapshot"
    /\ LET X == [b \in 1..val_dataset_samples |->
                    SampleImage("val", b - 1, heap[model_binarized].input_size)]
       IN  fwd' = [mdl |-> model_binarized, x |-> X,
                   trace |-> RunLayers(heap[model_binarized].layers, 1, X)]
    /\ heap' = [heap EXCEPT ![model].attrs = @ \cup {"dataset_input", "dataset_output"}]
    /\ pc' = "save"
    /\ UNCHANGED <<cfg, model, model_binarized, origin, optimizer, rng, i, train, val,
                   call, ret>>

\* line 528: torch.save(model.state_dict(), model_filename)
Save ==
    /\ pc = "save"
    /\ ret' = state_dict(heap[model])
    /\ pc' = "done"
    /\ UNCHANGED <<cfg, heap, model, model_binarized, origin, optimizer, rng, i, train,
                   val, fwd, call>>

Next ==
    \/ Start
    \/ ScriptValidate
    \/ ValidateForward
    \/ ValidateAccumulate
    \/ ValidateEnd
    \/ MakeOptimizer
    \/ LoopHead
    \/ TrainForward
    \/ TrainStep
    \/ TrainDecay
    \/ IterEnd
    \/ NextIteration
    \/ ScriptBinarize
    \/ Snapshot
    \/ Save

Spec == Init /\ [][Next]_vars


----------------------------------------------------------------------------
(* binarize_model and validate called one at a time, in any order, on any
   network that exists: the live one, a binarized copy, a copy of a copy *)

\* the split names a caller may pass to validate
DatasetArgs == Splits \cup {"validation"}

ApiStart ==
    /\ pc = "start"
    /\ Construct("api")
    /\ optimizer' = AdamW
    /\ UNCHANGED <<cfg, model_binarized, i, train, val, fwd, call>>

\* binarize_model(model=heap[src]); the locals of the call before are gone
ApiBinarize ==
    /\ pc = "api"
    /\ Len(heap) < MaxObjects
    /\ \E src \in 1..Len(heap) : Binarize(src, "api")
    /\ val' = ValNone
    /\ fwd' = FwdNone
    /\ UNCHANGED <<cfg, model, optimizer, i, train, call>>

\* validate(dataset, model=heap[mdl]); the caller survives the IOError
ApiValidate ==
    /\ pc = "api"
    /\ \E dataset \in DatasetArgs : \E mdl \in 1..Len(heap) :
          ValidateBegin(dataset, mdl, "api", "api")
    /\ fwd' = FwdNone
    /\ UNCHANGED <<cfg, heap, model, model_binarized, origin, optimizer, rng, i,
                   train, call, ret>>

NextApi ==
    \/ ApiStart
    \/ ApiBinarize
    \/ ApiValidate
    \/ ValidateForward
    \/ ValidateAccumulate
    \/ ValidateEnd

SpecApi == Init /\ [][NextApi]_vars


----------------------------------------------------------------------------
(* Snapshots taken and loaded at any point: binarize_model, the attachment of
   the dataset tensors and a state_dict / load_state_dict round trip, one at
   a time, in any order, on any network that exists *)

\* the values the harness lets the generator state reach
MaxDraws == 6

\* lines 515-520 once a binarized copy exists
ApiSnapshot ==
    /\ pc = "api"
    /\ model_binarized # 0
    /\ "dataset_input" \notin heap[model].attrs
    /\ LET X == [b \in 1..val_dataset_samples |->
                    SampleImage("val", b - 1, heap[model_binarized].input_size)]
       IN  fwd' = [mdl |-> model_binarized, x |-> X,
                   trace |-> RunLayers(heap[model_binarized].layers, 1, X)]
    /\ heap' = [heap EXCEPT ![model].attrs = @ \cup {"dataset_input", "dataset_output"}]
    /\ UNCHANGED <<pc, cfg, model, model_binarized, origin, optimizer, rng, i, train, val,
                   call, ret>>

\* Model(...).load_state_dict(heap[src].state_dict()), lines 388-389 without
\* the hardening: what the load gave, or its error, is kept in ret
ApiRoundTrip ==
    /\ pc = "api"
    /\ rng < MaxDraws
    /\ \E src \in 1..Len(heap) :
          LET fresh == ModelInit(cfg.SEED, cfg.NET_ARCHITECTURE, cfg.NUMBER_OF_CATEGORIES,
                                 cfg.INPUT_SIZE, rng)
          IN  /\ ret' = load_state_dict(fresh, state_dict(heap[src]))
              /\ call' = src
              /\ rng' = rng + Len(fresh.layers)
    /\ pc' = "loaded"
    /\ UNCHANGED <<cfg, heap, model, model_binarized, origin, optimizer, i, train, val, fwd>>

\* the loaded object is dropped
ApiLoaded ==
    /\ pc = "loaded"
    /\ pc' = "api"
    /\ ret' = "none"
    /\ call' = "none"
    /\ UNCHANGED <<cfg, heap, model, model_binarized, origin, optimizer, rng, i, train,
                   val, fwd>>

NextSnap ==
    \/ ApiStart
    \/ ApiBinarize
    \/ ApiSnapshot
    \/ ApiRoundTrip
    \/ ApiLoaded

SpecSnap == Init /\ [][NextSnap]_vars


----------------------------------------------------------------------------
(* The loss of lines 443-459 computed from given softmax outputs *)

\* a probability distribution over lead choices
Dist(kind, lead, a) ==
    CASE kind = "onehot" -> [n \in 1..lead |-> IF n = a THEN One ELSE Zero]
      [] kind = "uniform" -> [n \in 1..lead |-> Rat(1, lead)]
      [] kind = "peaked" -> [n \in 1..lead |->
                                IF n = a THEN Rat(lead + 1, 2 * lead) ELSE Rat(1, 2 * lead)]

Kinds == {"onehot", "uniform", "peaked"}

\* a [lead, cols] tensor of distributions along the leading axis: the first
\* column of kind k1 at row a, the others of kind k2 at rows that follow
DistTensor(k1, k2, lead, cols, a) ==
    [n \in 1..lead |-> [q \in 1..cols |->
        IF q = 1 THEN Dist(k1, lead, a)[n] ELSE Dist(k2, lead, ((a + q - 2) % lead) + 1)[n]]]

\* the layers, the gates per layer and the inputs of the networks tried
RegLayers == 2
RegGates == 2
RegInputs == 2

\* the coefficients of lines 67-70 tried
HyperValues ==
    { [ PASSTHROUGH_REGULARIZATION |-> t[1], CONNECTION_REGULARIZATION |-> t[2],
        GATE_WEIGHT_REGULARIZATION |-> t[3], LOSS_CE_STRENGTH |-> s ] :
      t \in { <<Rat(1, 1), Rat(5, 1), Rat(1, 1)>>, <<Zero, Zero, Zero>>,
              <<Zero, Rat(5, 1), Zero>>, <<Zero, Zero, Rat(1, 1)>> },
      s \in { Rat(9, 10), Rat(1, 2), One } }

\* F.softmax(layer.w, dim=0) and F.softmax(layer.c, dim=0), flattened, of layer
\* l (from 1) of the network the call is about
SoftW(a, l) ==
    DistTensor(IF l % 2 = 1 THEN a.wk[1] ELSE a.wk[2], IF l % 2 = 1 THEN a.wk[2] ELSE a.wk[1],
               NumGates, a.gates, a.wrow)
SoftC(a, l) ==
    DistTensor(IF l % 2 = 1 THEN a.ck[1] ELSE a.ck[2], IF l % 2 = 1 THEN a.ck[2] ELSE a.ck[1],
               RegInputs, 2 * a.gates, a.crow)

InitReg ==
    /\ pc = "regularizers"
    /\ cfg = "none"
    /\ heap = <<>>
    /\ model = 0
    /\ model_binarized = 0
    /\ origin = <<>>
    /\ optimizer = "none"
    /\ rng = 0
    /\ i = 0
    /\ train = TrainNone
    /\ val = ValNone
    /\ fwd = FwdNone
    /\ call \in [ layers : 1..RegLayers, gates : 1..RegGates,
                  wk : Kinds \X Kinds, wrow : {4, NumGates},
                  ck : Kinds \X Kinds, crow : {1},
                  cross_entropy : {Rat(1, 2), Rat(3, 2)},
                  h : HyperValues ]
    /\ ret = "none"

\* lines 448-451: the three regularisers of every layer
CallRegularizers ==
    /\ pc = "regularizers"
    /\ ret' = [ p |-> [l \in 1..call.layers |-> passthrough_regularization(SoftW(call, l))],
                c |-> [l \in 1..call.layers |-> l1_maxOnly_regularization(SoftC(call, l))],
                g |-> [l \in 1..call.layers |-> l1_maxOnly_regularization(SoftW(call, l))] ]
    /\ pc' = "loss"
    /\ UNCHANGED <<cfg, heap, model, model_binarized, origin, optimizer, rng, i, train,
                   val, fwd, call>>

\* lines 443 and 453-459
CallLoss ==
    /\ pc = "loss"
    /\ ret' = [ terms |-> ret,
                total |-> TotalLoss(call.cross_entropy, ret.p, ret.c, ret.g, call.h) ]
    /\ pc' = "backward"
    /\ UNCHANGED <<cfg, heap, model, model_binarized, origin, optimizer, rng, i, train,
                   val, fwd, call>>

NextReg ==
    \/ CallRegularizers
    \/ CallLoss

SpecReg == InitReg /\ [][NextReg]_vars


----------------------------------------------------------------------------
(* Properties *)

\* the k-th two-input Boolean function (k from 0) in the order of the table
\* of arXiv 2210.08277, on truth values
BooleanFunction(k, a, b) ==
    CASE k = 0 -> FALSE
      [] k = 1 -> a /\ b
      [] k = 2 -> a /\ ~b
      [] k = 3 -> a
      [] k = 4 -> b /\ ~a
      [] k = 5 -> b
      [] k = 6 -> a # b
      [] k = 7 -> a \/ b
      [] k = 8 -> ~(a \/ b)
      [] k = 9 -> a = b
      [] k = 10 -> ~b
      [] k = 11 -> b => a
      [] k = 12 -> ~a
      [] k = 13 -> a => b
      [] k = 14 -> ~(a /\ b)
      [] k = 15 -> TRUE

Boolean01 == {Zero, One}
AsRat(t) == IF t THEN One ELSE Zero

\* the (A, B) pairs of layer l of the last forward pass, over gates and samples
SlotPairs(l) ==
    { <<fwd.trace[l].A[j][b], fwd.trace[l].B[j][b]>> :
        j \in DOMAIN fwd.trace[l].A, b \in 1..Len(fwd.x) }

\* C1: whenever forward has stacked the 16 gates for slot values A and B that
\* are both 0 or 1, every g_k (k in 0..15) is the truth table of the k-th
\* two-input Boolean function of the spec's order at (A, B).
C1_GatesAreTruthTables ==
    \A l \in 1..Len(fwd.trace) : \A j \in DOMAIN fwd.trace[l].A : \A b \in 1..Len(fwd.x) :
        LET A == fwd.trace[l].A[j][b]
            B == fwd.trace[l].B[j][b]
        IN  (A \in Boolean01 /\ B \in Boolean01) =>
                \A k \in 0..15 :
                    fwd.trace[l].gates[j][b][k + 1] = AsRat(BooleanFunction(k, A = One, B = One))

\* a forward pass in which one layer met all four corners
C1_Witness ==
    \E l \in 1..Len(fwd.trace) :
        SlotPairs(l) = Boolean01 \X Boolean01


\* the parameter tensors of a network
Parameters(layers) == [l \in 1..Len(layers) |-> [w |-> layers[l].w, c |-> layers[l].c]]

\* the objects binarize_model has returned
Copies == {id \in 1..Len(heap) : origin[id].src # 0}

\* C2: binarize_model (bin_value 1) applied to a network that binarize_model
\* returned gives a network with the same w and c, entry for entry, in
\* every layer.
C2_BinarizeIdempotent ==
    \A id \in Copies :
        origin[id].src \in Copies =>
            Parameters(heap[id].layers) = Parameters(origin[id].layers)

\* a copy of a copy of a network some column of which has its maximum twice
C2_Witness ==
    \E id \in Copies :
        /\ origin[id].src \in Copies
        /\ \E l \in 1..Len(heap[id].layers) :
             LET col == ColumnW(origin[origin[id].src].layers[l].w, 1)
             IN  Cardinality({k \in 1..NumGates : col[k] = col[ArgMax(col)]}) > 1

\* C5: validate with a split name other than "val", "test", "train" raises
\* and does nothing else: no batch is read, forward is not run, nothing is
\* accumulated and nothing returned; with one of the three names it does not
\* raise.
C5_UnknownSplitRaises ==
    /\ val.status = "raised" =>
          /\ val.dataset \notin Splits
          /\ val.batches = <<>>
          /\ val.val_steps = 0
          /\ val.correct = 0
          /\ val.val_loss = Zero
          /\ val.result = <<>>
          /\ fwd = FwdNone
          /\ pc \notin {"validate", "validate_sum"}
    /\ val.status \in {"running", "returned"} => val.dataset \in Splits

C5_Witness == val.status = "raised" /\ val.dataset = "validation" /\ val.mdl = model


\* the position of the one entry of a column that is not zero
Hot(col) == CHOOSE p \in 1..Len(col) : col[p] # Zero

\* the input of layer l in the last forward pass
LayerInput(l) == IF l = 1 THEN fwd.x ELSE fwd.trace[l - 1].out

\* C8: when a network that binarize_model (bin_value 1) returned is run on a
\* batch of 0/1 entries, the output of every gate of every layer is the
\* Boolean function its one-hot w column selects, applied to the two entries
\* of the layer's input its one-hot c columns select; so every layer's output
\* is 0 or 1.
C8_BinarizedForwardIsBoolean ==
    (fwd.trace # <<>> /\ fwd.mdl \in Copies /\ \A b \in 1..Len(fwd.x) : Range(fwd.x[b]) \subseteq Boolean01) =>
        \A l \in 1..Len(fwd.trace) : \A b \in 1..Len(fwd.x) :
        \A j \in 1..heap[fwd.mdl].layers[l].number_of_gates :
            LET layer == heap[fwd.mdl].layers[l]
                k == Hot(ColumnW(layer.w, j)) - 1
                a == LayerInput(l)[b][Hot(ColumnC(layer.c, j, 1))]
                bb == LayerInput(l)[b][Hot(ColumnC(layer.c, j, 2))]
            IN  /\ fwd.trace[l].out[b][j] = AsRat(BooleanFunction(k, a = One, bb = One))
                /\ fwd.trace[l].out[b][j] \in Boolean01

\* a two-layer copy was run, a gate of its second layer computes a function of
\* two different inputs that depends on their order, and gave 1
C8_Witness ==
    /\ fwd.mdl \in Copies
    /\ Len(fwd.trace) = 2
    /\ \E j \in 1..heap[fwd.mdl].layers[2].number_of_gates : \E b \in 1..Len(fwd.x) :
          /\ Hot(ColumnW(heap[fwd.mdl].layers[2].w, j)) - 1 \in {2, 4, 11, 13}
          /\ fwd.trace[2].A[j][b] # fwd.trace[2].B[j][b]
          /\ fwd.trace[2].out[b][j] = One

\* C9: in every network binarize_model returned, every column of w and of c
\* of every layer has exactly one non-zero entry, it equals bin_value and sits
\* at a maximum of that column of the source network, and every layer is
\* flagged binarized; in no network that exists are some layers binarized and
\* others not.
C9_CopiesAreDiscrete ==
    /\ \A id \in Copies : \A l \in 1..Len(heap[id].layers) :
          LET layer == heap[id].layers[l]
              source == origin[id].layers[l]
              discrete(col, from) ==
                  \E p \in 1..Len(col) :
                      /\ col[p] = origin[id].bin_value
                      /\ col[p] # Zero
                      /\ \A q \in 1..Len(col) : q # p => col[q] = Zero
                      /\ \A q \in 1..Len(col) : RLeq(from[q], from[p])
          IN  /\ layer.binarized
              /\ Len(heap[id].layers) = Len(origin[id].layers)
              /\ \A j \in 1..layer.number_of_gates :
                    /\ discrete(ColumnW(layer.w, j), ColumnW(source.w, j))
                    /\ \A s \in 1..2 : discrete(ColumnC(layer.c, j, s), ColumnC(source.c, j, s))
    /\ \A id \in 1..Len(heap) : \A l \in 1..Len(heap[id].layers) :
          heap[id].layers[l].binarized = heap[id].layers[1].binarized

\* a two-layer copy of a network that has been trained
C9_Witness ==
    \E id \in Copies :
        /\ Len(heap[id].layers) = 2
        /\ origin[id].src = model
        /\ train.decays > 0
        /\ \E l \in 1..2 : \E j \in 1..heap[id].layers[l].number_of_gates :
              LET col == ColumnW(origin[id].layers[l].w, j)
              IN  Cardinality({k \in 1..NumGates : col[k] = col[ArgMax(col)]}) > 1

\* what the claims call a layer's state: w, c and the binarized flag
Core(m) == [l \in 1..Len(m.layers) |->
                [w |-> m.layers[l].w, c |-> m.layers[l].c, binarized |-> m.layers[l].binarized]]

ValidatePcs == {e[1] : e \in ValidateCalls} \cup {"validate", "validate_sum"}

\* C3: no step of a validate call changes w, c or the binarized flag of any
\* layer of any network; a binarize_model call changes none of the networks
\* that exist and returns a new object, not the live one; and no step of a
\* later training iteration changes a network binarize_model returned.
C3_ReadOnly ==
    [][ /\ pc \in ValidatePcs =>
              /\ Len(heap') = Len(heap)
              /\ \A id \in 1..Len(heap) : Core(heap'[id]) = Core(heap[id])
        /\ (pc \in {"v_binarize", "f_binarize"} /\ pc' # "crashed") =>
              /\ \A id \in 1..Len(heap) : Core(heap'[id]) = Core(heap[id])
              /\ model_binarized' # model
              /\ model_binarized' \notin 1..Len(heap)
              /\ model_binarized' \in 1..Len(heap')
              /\ model' = model
        /\ pc \in {"train_forward", "train_step", "train_decay"} =>
              \A id \in Copies : heap'[id] = heap[id]
      ]_vars

\* a copy exists and the live network has been trained since it was made
C3_Witness ==
    /\ model_binarized \in Copies
    /\ origin[model_binarized].src = model
    /\ Parameters(heap[model].layers) # Parameters(origin[model_binarized].layers)
    /\ pc = "iter_end"

\* C4: when the last entry of the architecture is no multiple of
\* number_of_categories the construction fails on the assert, before any
\* layer is created (no object, no value drawn from the generator); when it
\* is a multiple the construction succeeds and outputs_per_category *
\* number_of_categories is the last layer's number of gates.
C4_Construction ==
    LET last == cfg.NET_ARCHITECTURE[Len(cfg.NET_ARCHITECTURE)]
        cats == cfg.NUMBER_OF_CATEGORIES
    IN  /\ last % cats # 0 =>
              /\ heap = <<>>
              /\ model = 0
              /\ pc \in {"start", "crashed"}
              /\ pc = "crashed" => (ret = "AssertionError" /\ rng = cfg.SEED)
        /\ (last % cats = 0 /\ pc # "start") =>
              /\ pc # "crashed"
              /\ model = 1
              /\ Len(heap[1].layers) = Len(cfg.NET_ARCHITECTURE)
              /\ heap[1].outputs_per_category * cats
                    = heap[1].layers[Len(heap[1].layers)].number_of_gates

\* the construction of a two-layer network failed
C4_Witness ==
    /\ pc = "crashed"
    /\ ret = "AssertionError"
    /\ Len(cfg.NET_ARCHITECTURE) = 2
    /\ heap = <<>>

\* layer after is layer before with rows 0 and 15 of w scaled by
\* 1 - LEARNING_RATE * DECAY_CONST_GATES and nothing else changed
Decayed(before, after) ==
    LET factor == RSub(One, RMul(LEARNING_RATE, DECAY_CONST_GATES))
    IN  /\ \A j \in 1..before.number_of_gates :
              /\ after.w[1][j] = RMul(before.w[1][j], factor)
              /\ after.w[16][j] = RMul(before.w[16][j], factor)
              /\ \A k \in 2..15 : after.w[k][j] = before.w[k][j]
        /\ after.c = before.c
        /\ after.binarized = before.binarized

\* C10: the constant-gate decay is the step that follows the optimizer step of
\* an iteration, and the only one: it scales rows 0 and 15 of w of every
\* layer of the live network by 1 - LEARNING_RATE * DECAY_CONST_GATES and
\* changes no other row and no entry of c; the parameters change in no other
\* step but the optimizer step; before the forward pass of iteration i there
\* have been i optimizer steps and i decays; the optimizer's weight decay is 0.
C10_DecayAfterStep ==
    /\ [][ /\ pc = "train_decay" =>
                 /\ \A l \in 1..Len(heap[model].layers) :
                        Decayed(heap[model].layers[l], heap'[model].layers[l])
                 /\ pc' \notin {"train_forward", "train_step", "train_decay"}
           /\ pc = "train_step" => pc' = "train_decay"
           /\ pc' = "train_decay" => pc = "train_step"
           /\ pc' = "train_step" => pc = "train_forward"
           /\ (model # 0 /\ Parameters(heap'[model].layers) # Parameters(heap[model].layers))
                 => pc \in {"train_step", "train_decay"}
         ]_vars
    /\ [] /\ pc = "train_forward" => (train.steps = i /\ train.decays = i)
          /\ pc = "train_decay" => (train.steps = i + 1 /\ train.decays = i)
          /\ pc \notin {"train_step", "train_decay"} => train.steps = train.decays
          /\ pc \in {"train_forward", "train_step", "train_decay"} =>
                 optimizer.weight_decay = Zero

\* two iterations are over and a constant-gate logit has been scaled twice
C10_Witness ==
    /\ pc = "iter_end"
    /\ train.decays = 2
    /\ \E l \in 1..Len(heap[model].layers) : \E j \in 1..heap[model].layers[l].number_of_gates :
          heap[model].layers[l].w[16][j][2] = 16

----------------------------------------------------------------------------
(* Properties of the regularisers and the loss *)

AllOneHot(t) ==
    \A q \in 1..Len(t[1]) : \E p \in 1..Len(t) :
        t[p][q] = One /\ \A n \in 1..Len(t) : n # p => t[n][q] = Zero

AllUniform(t) == \A q \in 1..Len(t[1]) : \A n \in 1..Len(t) : t[n][q] = Rat(1, Len(t))

\* the regulariser values of the call, once computed
Terms == IF pc = "loss" THEN ret ELSE ret.terms

\* the claim about value v of l1_maxOnly_regularization on tensor t
OneHotDistanceClaim(t, v) ==
    /\ AllOneHot(t) => v = Zero
    /\ AllUniform(t) => v = One
    /\ RLeq(Zero, v) /\ RLeq(v, One)

\* C6: l1_maxOnly_regularization returns 0 when every distribution along the
\* leading axis is one-hot, 1 when every one is uniform, and a value in [0,1]
\* otherwise.
C6_OneHotDistance ==
    pc \in {"loss", "backward"} =>
        \A l \in 1..call.layers :
            /\ OneHotDistanceClaim(SoftW(call, l), Terms.g[l])
            /\ OneHotDistanceClaim(SoftC(call, l), Terms.c[l])

\* C7: with the three regularisation coefficients 0, the loss that is
\* back-propagated is the cross-entropy times LOSS_CE_STRENGTH, whatever the
\* batch and LOSS_CE_STRENGTH.
C7_LossIsScaledCrossEntropy ==
    ( /\ pc = "backward"
      /\ call.h.PASSTHROUGH_REGULARIZATION = Zero
      /\ call.h.CONNECTION_REGULARIZATION = Zero
      /\ call.h.GATE_WEIGHT_REGULARIZATION = Zero ) =>
        /\ ret.total.loss = RMul(call.cross_entropy, call.h.LOSS_CE_STRENGTH)
        /\ ret.total.loss = ret.total.loss_ce

\* the coefficients are 0, the three regularisers of a two-layer network are
\* not, and LOSS_CE_STRENGTH is below 1
C7_Witness ==
    /\ pc = "backward"
    /\ call.h.PASSTHROUGH_REGULARIZATION = Zero
    /\ call.h.CONNECTION_REGULARIZATION = Zero
    /\ call.h.GATE_WEIGHT_REGULARIZATION = Zero
    /\ call.h.LOSS_CE_STRENGTH = Rat(1, 2)
    /\ call.layers = 2
    /\ \A l \in 1..2 : ret.terms.p[l] # Zero /\ ret.terms.c[l] # Zero /\ ret.terms.g[l] # Zero


----------------------------------------------------------------------------
(* Properties of the training loop's schedule *)

\* the periodic validation is due in iteration i
Due == (i + 1) % VALIDATE_EVERY = 0

\* model_binarized is the object binarize_model made last, from the live
\* network, and the live network's parameters are still those it was made from
Fresh ==
    /\ model_binarized = Len(heap)
    /\ model_binarized # model
    /\ origin[model_binarized].src = model
    /\ origin[model_binarized].layers = heap[model].layers
    /\ AllBinarized(heap[model_binarized])

\* a validate call of the given split and network returns
Returns(dataset, mdl) ==
    /\ pc = "validate"
    /\ val.start_idx >= val.number_of_samples
    /\ val.dataset = dataset
    /\ val.mdl = mdl

\* the positions of the periodic validation (lines 479-498), call sites and
\* the validate calls made from them
InPeriodic ==
    \/ pc \in {"v_train", "v_binarize", "v_bin_train", "v_val", "v_bin_val"}
    \/ pc \in {"validate", "validate_sum"} /\ val.ret \in {"v_binarize", "v_val", "v_bin_val", "next"}

\* C11: the loop runs iterations 0 .. TRAINING_STEPS-1 in order, one optimizer
\* step and decay each; the periodic evaluation is entered exactly in the
\* iterations i with (i+1) a multiple of VALIDATE_EVERY, after that
\* iteration's update and decay; it runs, in this order, validate of the live
\* network on train, binarize_model of the live network as it is then,
\* validate of that copy on train, validate of the live network on val and
\* validate of that copy on val; only when the last has returned does i
\* advance, and the next iteration start.
C11_PeriodicEvaluation ==
    /\ [][ /\ i' # i => (pc = "next" /\ i' = i + 1 /\ pc' = "loop")
           /\ pc = "loop" => pc' = IF i < TRAINING_STEPS THEN "train_forward" ELSE "test"
           /\ pc' = "train_forward" => pc = "loop"
           /\ pc = "iter_end" => pc' = IF Due THEN "v_train" ELSE "next"
           /\ pc' = "iter_end" => pc = "train_decay"
           /\ pc' = "v_train" => (pc = "iter_end" /\ Due)
           /\ pc = "v_train" => (pc' = "validate" /\ val'.dataset = "train" /\ val'.mdl = model)
           /\ pc' = "v_binarize" => Returns("train", model)
           /\ pc = "v_binarize" => (pc' = "v_bin_train" /\ Fresh')
           /\ pc' = "v_bin_train" => pc = "v_binarize"
           /\ pc = "v_bin_train" =>
                 (pc' = "validate" /\ val'.dataset = "train" /\ val'.mdl = model_binarized)
           /\ pc' = "v_val" => (Returns("train", model_binarized) /\ Fresh)
           /\ pc = "v_val" => (pc' = "validate" /\ val'.dataset = "val" /\ val'.mdl = model)
           /\ pc' = "v_bin_val" => Returns("val", model)
           /\ pc = "v_bin_val" =>
                 (pc' = "validate" /\ val'.dataset = "val" /\ val'.mdl = model_binarized)
           /\ pc' = "next" =>
                 \/ pc = "iter_end" /\ ~Due
                 \/ Due /\ Returns("val", model_binarized) /\ Fresh
         ]_vars
    /\ [] /\ i \in 0..TRAINING_STEPS
          /\ pc \in {"train_forward", "train_step", "train_decay", "iter_end", "next"} =>
                i < TRAINING_STEPS
          /\ InPeriodic => (Due /\ i < TRAINING_STEPS /\ train.steps = i + 1 /\ train.decays = i + 1)
          /\ pc \in {"test", "f_binarize", "f_bin_test", "snapshot", "save", "done"} =>
                (i = TRAINING_STEPS /\ train.steps = TRAINING_STEPS /\ train.decays = TRAINING_STEPS)

\* the second periodic evaluation is over: the copy evaluated last is the one
\* made in this iteration, and an older copy, made from other parameters, exists
C11_Witness ==
    /\ pc = "next"
    /\ Due
    /\ Fresh
    /\ val.status = "returned"
    /\ val.mdl = model_binarized
    /\ \E id \in Copies :
          /\ id < model_binarized
          /\ origin[id].src = model
          /\ origin[id].layers # heap[model].layers
          /\ heap[id].layers # heap[model_binarized].layers


----------------------------------------------------------------------------
(* Properties of validate's batching *)

\* the index range [lo, hi) the k-th pass (k from 1) of the loop over a split
\* of n samples is to visit
BatchRange(k, n) ==
    << (k - 1) * BATCH_SIZE, IF k * BATCH_SIZE < n THEN k * BATCH_SIZE ELSE n >>

\* C12: a validate call on a recognised split of n samples visits the ranges
\* [0,B), [B,2B), ... in order, the last one cut at n; the batch run through
\* the network is the samples of that range; val_steps counts the samples
\* visited; when the call returns every index of 0..n-1 has been in exactly
\* one batch, val_steps is n, and the loss and the accuracy returned are the
\* accumulated sums divided by n, the accuracy in [0,1].
C12_BatchesCoverSplit ==
    val.status \in {"running", "returned"} =>
        LET n == val.number_of_samples
            bs == val.batches
        IN  /\ val.dataset \in Splits
            /\ n = NumberOfSamples(val.dataset)
            /\ \A k \in 1..Len(bs) :
                  /\ bs[k] = BatchRange(k, n)
                  /\ bs[k][1] < bs[k][2]
            /\ val.val_steps = IF bs = <<>> THEN 0 ELSE bs[Len(bs)][2]
            /\ val.correct \in 0..val.val_steps
            /\ pc = "validate_sum" =>
                  LET r == BatchRange(Len(bs) + 1, n)
                  IN  /\ r[1] = val.start_idx
                      /\ Len(fwd.x) = r[2] - r[1]
                      /\ \A b \in 1..Len(fwd.x) :
                            fwd.x[b] = SampleImage(val.dataset, r[1] + b - 1,
                                                   heap[val.mdl].input_size)
            /\ val.status = "returned" =>
                  /\ \A idx \in 0..(n - 1) :
                        Cardinality({k \in 1..Len(bs) : bs[k][1] <= idx /\ idx < bs[k][2]}) = 1
                  /\ val.val_steps = n
                  /\ val.result = << RDiv(val.val_loss, Rat(n, 1)), Rat(val.correct, n) >>
                  /\ RLeq(Zero, val.result[2]) /\ RLeq(val.result[2], One)

\* a call on the train split has returned after a full batch and a shorter one,
\* with some samples classified right and some not
C12_Witness ==
    /\ val.status = "returned"
    /\ val.dataset = "train"
    /\ Len(val.batches) >= 2
    /\ val.batches[Len(val.batches)][2] - val.batches[Len(val.batches)][1] < BATCH_SIZE
    /\ val.batches[1][2] - val.batches[1][1] = BATCH_SIZE
    /\ val.correct > 0
    /\ val.correct < val.val_steps


----------------------------------------------------------------------------
(* Properties of the snapshot round trip *)

\* C13: loading m.state_dict() into a fresh Model of the same architecture
\* succeeds, whatever m and whether or not the dataset tensors have been
\* attached to it, and gives every layer the w and c of m; binarize_model(m)
\* never fails either, so that nothing but a failed construction ends the run.
C13_SnapshotRoundTrip ==
    /\ pc = "loaded" =>
          /\ ret.error = "none"
          /\ Parameters(ret.layers) = Parameters(heap[call].layers)
    /\ pc = "crashed" => heap = <<>>


====
